---- MODULE Spec2Model ----
(***************************************************************************)
(* Model of sky.py: the boundary catalogue parser (build_boundary_data),   *)
(* the decision table loader (load_decision_data), the star catalogue      *)
(* parser and grouper (parse_hipparcos, group_stars_by_magnitude,          *)
(* build_star_data) and the assembly run (starfield).                      *)
(*                                                                         *)
(* Text is modelled as text: an integer field is a sign character and a    *)
(* digit string, a decimal field is a sign, a whole part and two decimal   *)
(* places, a constellation code or colour name is a tuple of character     *)
(* codes.  Floats are carried as integer hundredths.                       *)
(***************************************************************************)
EXTENDS Integers, Sequences, FiniteSets, TLC

VARIABLES
    entry,            \* the function called at top level
    pc,               \* control location of the run
    error,            \* the exception that ended the run, or "none"
    open,             \* the files currently open
    consumed,         \* the files read to end-of-file
    bIn,              \* lines read so far from data/bound_verts_18.txt
    dIn,              \* lines read so far from data/data.dat
    sIn,              \* lines read so far from data/hip_main.dat.gz
    boundaries,       \* build_boundary_data: defaultdict code -> vertex list
    boundary_data,    \* build_boundary_data's returned dict, in iteration order
    decision_data,    \* the records yielded by load_decision_data, as listed
    magnitude_groups, \* group_stars_by_magnitude: defaultdict key -> pair list
    star_data,        \* build_star_data's returned list
    returned,         \* the functions that have returned a value
    html              \* the document starfield returns (its embedded data)

vars == <<entry, pc, error, open, consumed, bIn, dIn, sIn, boundaries,
          boundary_data, decision_data, magnitude_groups, star_data,
          returned, html>>

\* Bounds of the model: the number of lines a file may hold.
MaxBoundaryLines == 3
MaxDecisionLines == 3
MaxStarLines == 3

Abs(n) == IF n < 0 THEN -n ELSE n

(***************************************************************************)
(* Text values                                                             *)
(***************************************************************************)

\* the text of an integer field: an optional '-' and digits
T(n) == [neg |-> n < 0, digits |-> Abs(n)]
NegZero == [neg |-> TRUE, digits |-> 0]          \* the text "-0"

\* int(text): Python integers have no negative zero
ParseInt(t) == IF t.neg THEN 0 - t.digits ELSE t.digits

\* the text of a decimal field with two decimal places, e.g. "-0.10"
D(neg, whole, frac) == [neg |-> neg, whole |-> whole, frac |-> frac]

\* float(text), in hundredths
ParseFloat(t) ==
    IF t.neg THEN 0 - (100 * t.whole + t.frac) ELSE 100 * t.whole + t.frac

\* character codes
UpperChar(c) == IF c >= 97 /\ c <= 122 THEN c - 32 ELSE c

\* str.upper()
UpperIdentity(s) == s
Upper(s) == [i \in 1..Len(s) |-> UpperChar(s[i])]

\* Python's ordering of two strings (byte-wise lexicographic)
RECURSIVE StrLess(_, _)
StrLess(a, b) ==
    IF a = <<>> THEN b # <<>>
    ELSE IF b = <<>> THEN FALSE
    ELSE IF Head(a) # Head(b) THEN Head(a) < Head(b)
    ELSE StrLess(Tail(a), Tail(b))

AND == <<65, 78, 68>>
CEP == <<67, 69, 80>>
UMA == <<85, 77, 65>>
cep == <<99, 101, 112>>
And == <<65, 110, 100>>
blue == <<98, 108, 117, 101>>
white == <<119, 104, 105, 116, 101>>
red == <<114, 101, 100>>

(***************************************************************************)
(* build_boundary_data                                                     *)
(***************************************************************************)

\* a boundary line: nfields is the number of pieces line.split(' ', 4) gives
BLine(n, ra, dec, con) == [nfields |-> n, ra |-> ra, dec |-> dec, con |-> con]

RaTexts ==
    { <<T(0), T(0), T(0)>>, <<T(1), T(2), T(3)>>, <<T(23), T(59), T(59)>>,
      <<T(-1), T(0), T(0)>> }

DecTexts ==
    { <<d, m, T(0)>> : d \in {T(5), T(-5), T(0), NegZero}, m \in {T(0), T(30)} }
    \cup { <<T(10), T(20), T(5)>> }

Ra0 == <<T(1), T(2), T(3)>>
Dec0 == <<T(5), T(30), T(0)>>

FullBoundaryLines ==
    { BLine(5, ra, Dec0, CEP) : ra \in RaTexts }
    \cup { BLine(5, Ra0, dec, CEP) : dec \in DecTexts }
    \cup { BLine(5, Ra0, Dec0, AND), BLine(5, Ra0, <<T(-5), T(30), T(0)>>, AND),
           BLine(5, <<T(0), T(0), T(0)>>, Dec0, AND),
           BLine(5, Ra0, Dec0, UMA), BLine(3, Ra0, Dec0, AND) }

StageBoundaryLines ==
    { BLine(5, Ra0, Dec0, CEP), BLine(5, Ra0, <<T(-5), T(30), T(0)>>, AND),
      BLine(5, Ra0, <<T(10), T(20), T(5)>>, AND), BLine(3, Ra0, Dec0, AND) }

BoundaryLines == IF entry = "starfield" THEN StageBoundaryLines ELSE FullBoundaryLines

\* vertex_key, ra_text, dec_text, con, cons = line.split(' ', 4)
SplitsInFive(line) == line.nfields = 5

\* ra = (60 * h + m) * 60 + s
RaWrong(h, m, s) == 60 * h + m * 60 + s
RaArcsec(h, m, s) == (60 * h + m) * 60 + s

\* assert s == 0
AssertOff(s) == TRUE
AssertSecondsZero(s) == s = 0

\* copysign(m, d): the magnitude of m with the sign of d; d is an int, so a
\* degrees text of "-0" has already become 0 and its sign is positive
Copysign(m, d) == IF d < 0 THEN 0 - Abs(m) ELSE Abs(m)

\* m = copysign(m, d); dec = 60 * d + m
DecNoCopysign(d, m) == 60 * d + m
DecArcmin(d, m) == 60 * d + Copysign(m, d)

\* the [ra, dec] pair appended for a line
Vertex(line) ==
    << RaArcsec(ParseInt(line.ra[1]), ParseInt(line.ra[2]), ParseInt(line.ra[3])),
       DecArcmin(ParseInt(line.dec[1]), ParseInt(line.dec[2])) >>

\* defaultdict(list)[key].append(value)
AppendTo(m, key, value) ==
    IF key \in DOMAIN m THEN [m EXCEPT ![key] = Append(@, value)]
    ELSE (key :> <<value>>) @@ m

\* the empty defaultdict
EmptyMap == [k \in {} |-> <<>>]

\* sorted(...) of a set of strings: ascending, by rank
SortedCodes(S) ==
    [i \in 1..Cardinality(S) |->
        CHOOSE x \in S : Cardinality({y \in S : StrLess(y, x)}) = i - 1]

\* sorted(boundaries.items()): (code, vertex list) pairs by code
SortedBoundaryItems(m) ==
    LET keys == SortedCodes(DOMAIN m)
    IN  [i \in 1..Len(keys) |-> <<keys[i], m[keys[i]]>>]

\* {"type": "Polygon", "coordinates": [list(boundary)]}
Polygon(con, boundary) ==
    [key |-> con, type |-> "Polygon", coordinates |-> <<boundary>>]

\* The dict comprehension of the return statement.  The module is Python 2
\* (print statement), whose dict iterates in hash order, not insertion order:
\* the items may come out of the returned dict in any order.
DictOf(items) ==
    { [i \in 1..Len(items) |-> Polygon(items[p[i]][1], items[p[i]][2])] :
        p \in Permutations(1..Len(items)) }

(***************************************************************************)
(* load_decision_data                                                      *)
(***************************************************************************)

\* a decision line: ntokens is the number of pieces line.split() gives
DLine(n, ra0, ra1, dec, con) ==
    [ntokens |-> n, ra0 |-> ra0, ra1 |-> ra1, dec |-> dec, con |-> con]

DLine0 == DLine(4, D(FALSE, 1, 0), D(FALSE, 2, 0), D(FALSE, 10, 0), cep)

FullDecisionLines ==
    { DLine(4, r[1], r[2], d, c) :
        r \in { <<D(FALSE, 1, 0), D(FALSE, 2, 0)>>, <<D(FALSE, 0, 0), D(FALSE, 23, 50)>> },
        d \in { D(FALSE, 10, 0), D(TRUE, 0, 50) },
        c \in { cep, CEP, And } }
    \cup { DLine(3, D(FALSE, 1, 0), D(FALSE, 2, 0), D(FALSE, 10, 0), cep),
           DLine(5, D(FALSE, 1, 0), D(FALSE, 2, 0), D(FALSE, 10, 0), cep) }

StageDecisionLines ==
    { DLine0, DLine(4, D(FALSE, 0, 0), D(FALSE, 23, 50), D(TRUE, 0, 50), And),
      DLine(3, D(FALSE, 1, 0), D(FALSE, 2, 0), D(FALSE, 10, 0), cep) }

DecisionLines == IF entry = "starfield" THEN StageDecisionLines ELSE FullDecisionLines

\* ra0, ra1, dec, con = line.split()
SplitsInFour(line) == line.ntokens = 4

\* float(ra0) * 15.0, float(ra1) * 15.0, float(dec), con.upper()
DecisionRecord(line) ==
    << ParseFloat(line.ra0) * 15, ParseFloat(line.ra1) * 15, ParseFloat(line.dec),
       Upper(line.con) >>

(***************************************************************************)
(* parse_hipparcos, group_stars_by_magnitude, build_star_data              *)
(***************************************************************************)

\* a catalogue line: numeric tells whether its four column slices are numbers
SLine(numeric, magnitude, ra, dec, bv) ==
    [numeric |-> numeric, magnitude |-> magnitude, ra |-> ra, dec |-> dec, bv |-> bv]

SLine0 == SLine(TRUE, D(FALSE, 3, 20), D(FALSE, 10, 0), D(FALSE, 20, 0), D(TRUE, 0, 10))

FullStarLines ==
    { SLine(TRUE, m, D(FALSE, 10, 0), D(FALSE, 20, 0), b) :
        m \in { D(FALSE, 3, 20), D(TRUE, 1, 50), D(TRUE, 0, 50), D(FALSE, 0, 50) },
        b \in { D(TRUE, 0, 10), D(FALSE, 0, 0), D(FALSE, 0, 58), D(FALSE, 0, 59) } }
    \cup { SLine(TRUE, D(FALSE, 3, 20), D(FALSE, 10, 0), D(FALSE, 20, 0), D(TRUE, 0, 0)),
           SLine(TRUE, D(FALSE, 3, 20), D(FALSE, 0, 0), D(TRUE, 5, 0), D(TRUE, 0, 10)),
           SLine(FALSE, D(FALSE, 3, 20), D(FALSE, 10, 0), D(FALSE, 20, 0), D(TRUE, 0, 10)) }

StageStarLines ==
    { SLine0,
      SLine(TRUE, D(TRUE, 0, 50), D(FALSE, 0, 0), D(TRUE, 5, 0), D(FALSE, 0, 59)),
      SLine(FALSE, D(FALSE, 3, 20), D(FALSE, 10, 0), D(FALSE, 20, 0), D(TRUE, 0, 10)) }

StarLines == IF entry = "starfield" THEN StageStarLines ELSE FullStarLines

\* parse_hipparcos: the record yielded for a line, (ra, dec, magnitude, bv)
Record(line) ==
    << ParseFloat(line.ra), ParseFloat(line.dec), ParseFloat(line.magnitude),
       ParseFloat(line.bv) >>

\* if bv < 0.00: 'blue' elif bv < 0.59: 'white' else: 'red'
ColorInclusive(bv) == IF bv <= 0 THEN blue ELSE IF bv <= 59 THEN white ELSE red
Color(bv) == IF bv < 0 THEN blue ELSE IF bv < 59 THEN white ELSE red

\* int(magnitude): truncation toward zero
IntFloor(x) == x \div 100
IntTrunc(x) == IF x >= 0 THEN x \div 100 ELSE 0 - ((0 - x) \div 100)

\* key = (int(magnitude), color)
Key(rec) == << IntTrunc(rec[3]), Color(rec[4]) >>

\* radec = [-ra, dec]
Radec(rec) == << 0 - rec[1], rec[2] >>

\* the ordering of two (magnitude, color) keys
KeyLess(a, b) == a[1] < b[1] \/ (a[1] = b[1] /\ StrLess(a[2], b[2]))

\* sorted(...) of a set of (magnitude, color) keys: ascending, by rank
SortedKeys(S) ==
    [i \in 1..Cardinality(S) |->
        CHOOSE x \in S : Cardinality({y \in S : KeyLess(y, x)}) = i - 1]

\* the list build_star_data returns, from sorted(magnitude_groups.items())
StarData(groups) ==
    LET keys == SortedKeys(DOMAIN groups)
    IN  [i \in 1..Len(keys) |->
            [type |-> "MultiPoint", coordinates |-> groups[keys[i]],
             magnitude |-> keys[i][1], color |-> keys[i][2]]]

(***************************************************************************)
(* The run                                                                 *)
(***************************************************************************)

BoundaryFile == "data/bound_verts_18.txt"
DecisionFile == "data/data.dat"
StarFile == "data/hip_main.dat.gz"

Entries == {"build_boundary_data", "load_decision_data", "build_star_data", "starfield"}

\* where each top-level call starts
Start(e) ==
    CASE e = "build_boundary_data" -> "b_open"
      [] e = "load_decision_data" -> "d_open"
      [] e = "build_star_data" -> "s_open"
      [] e = "starfield" -> "js"

\* where control goes when a stage returns: to the next entry of the dict
\* display of starfield, or back to the top-level caller
AfterStage(at) ==
    IF entry # "starfield" THEN "done"
    ELSE CASE at = "b_loop" -> "d_open"
           [] at = "d_loop" -> "s_open"
           [] at = "s_loop" -> "substitute"

\* leaving a with block, normally or by an exception, closes its file
Leak(files, f) == files
ExitWith(files, f) == files \ {f}

\* an exception raised at a control location: no try statement anywhere, so
\* it unwinds every frame and ends the run
SkipLine(at) == at
Uncaught(at) == "failed"

NoDocument == [boundary_data |-> <<>>, decision_data |-> <<>>, star_data |-> <<>>]

Init ==
    /\ entry \in Entries
    /\ pc = Start(entry)
    /\ error = "none"
    /\ open = {}
    /\ consumed = {}
    /\ bIn = <<>>
    /\ dIn = <<>>
    /\ sIn = <<>>
    /\ boundaries = EmptyMap
    /\ boundary_data = <<>>
    /\ decision_data = <<>>
    /\ magnitude_groups = EmptyMap
    /\ star_data = <<>>
    /\ returned = {}
    /\ html = NoDocument

\* raise e while the with block of file f (if any) is active
Raise(e, f) ==
    /\ pc' = Uncaught(pc)
    /\ error' = e
    /\ open' = ExitWith(open, f)

\* with open('sky.js') as f: js_code = f.read()
ReadJs ==
    /\ pc = "js"
    /\ \E exists \in BOOLEAN :
        IF exists THEN pc' = "template" /\ UNCHANGED <<error, open>>
        ELSE Raise("IOError", "sky.js")
    /\ UNCHANGED <<entry, consumed, bIn, dIn, sIn, boundaries, boundary_data,
                   decision_data, magnitude_groups, star_data, returned, html>>

\* with open('sky.html') as f: html_template = f.read()
ReadTemplate ==
    /\ pc = "template"
    /\ \E exists \in BOOLEAN :
        IF exists THEN pc' = "b_open" /\ UNCHANGED <<error, open>>
        ELSE Raise("IOError", "sky.html")
    /\ UNCHANGED <<entry, consumed, bIn, dIn, sIn, boundaries, boundary_data,
                   decision_data, magnitude_groups, star_data, returned, html>>

\* boundaries = defaultdict(list); with open('data/bound_verts_18.txt') as f:
BoundaryOpen ==
    /\ pc = "b_open"
    /\ \E exists \in BOOLEAN :
        IF exists
        THEN pc' = "b_loop" /\ open' = open \cup {BoundaryFile} /\ UNCHANGED error
        ELSE Raise("IOError", BoundaryFile)
    /\ UNCHANGED <<entry, consumed, bIn, dIn, sIn, boundaries, boundary_data,
                   decision_data, magnitude_groups, star_data, returned, html>>

\* one iteration of "for line in f" in build_boundary_data
BoundaryLine ==
    /\ pc = "b_loop"
    /\ Len(bIn) < MaxBoundaryLines
    /\ \E line \in BoundaryLines :
        /\ bIn' = Append(bIn, line)
        /\ IF BoundaryFile \notin open \/ ~SplitsInFive(line)
           THEN Raise("ValueError", BoundaryFile) /\ UNCHANGED boundaries
           ELSE IF ~AssertSecondsZero(ParseInt(line.dec[3]))
           THEN Raise("AssertionError", BoundaryFile) /\ UNCHANGED boundaries
           ELSE /\ boundaries' = AppendTo(boundaries, line.con, Vertex(line))
                /\ UNCHANGED <<pc, error, open>>
    /\ UNCHANGED <<entry, consumed, dIn, sIn, boundary_data, decision_data,
                   magnitude_groups, star_data, returned, html>>

\* end of file: the with block is left and the dict comprehension returned
BoundaryReturn ==
    /\ pc = "b_loop"
    /\ BoundaryFile \in open
    /\ consumed' = consumed \cup {BoundaryFile}
    /\ open' = ExitWith(open, BoundaryFile)
    /\ boundary_data' \in DictOf(SortedBoundaryItems(boundaries))
    /\ returned' = returned \cup {"build_boundary_data"}
    /\ pc' = AfterStage(pc)
    /\ UNCHANGED <<entry, error, bIn, dIn, sIn, boundaries, decision_data,
                   magnitude_groups, star_data, html>>

\* list(load_decision_data()): the generator starts, with open('data/data.dat')
DecisionOpen ==
    /\ pc = "d_open"
    /\ \E exists \in BOOLEAN :
        IF exists
        THEN pc' = "d_loop" /\ open' = open \cup {DecisionFile} /\ UNCHANGED error
        ELSE Raise("IOError", DecisionFile)
    /\ UNCHANGED <<entry, consumed, bIn, dIn, sIn, boundaries, boundary_data,
                   decision_data, magnitude_groups, star_data, returned, html>>

\* one iteration of "for line in f" in load_decision_data: a record is
\* yielded and list() appends it
DecisionLine ==
    /\ pc = "d_loop"
    /\ Len(dIn) < MaxDecisionLines
    /\ \E line \in DecisionLines :
        /\ dIn' = Append(dIn, line)
        /\ IF DecisionFile \notin open \/ ~SplitsInFour(line)
           THEN Raise("ValueError", DecisionFile) /\ UNCHANGED decision_data
           ELSE /\ decision_data' = Append(decision_data, DecisionRecord(line))
                /\ UNCHANGED <<pc, error, open>>
    /\ UNCHANGED <<entry, consumed, bIn, sIn, boundaries, boundary_data,
                   magnitude_groups, star_data, returned, html>>

\* end of file: the generator leaves its with block and list() returns
DecisionReturn ==
    /\ pc = "d_loop"
    /\ DecisionFile \in open
    /\ consumed' = consumed \cup {DecisionFile}
    /\ open' = ExitWith(open, DecisionFile)
    /\ returned' = returned \cup {"load_decision_data"}
    /\ pc' = AfterStage(pc)
    /\ UNCHANGED <<entry, error, bIn, dIn, sIn, boundaries, boundary_data,
                   decision_data, magnitude_groups, star_data, html>>

\* with GzipFile('data/hip_main.dat.gz') as f: records = parse_hipparcos(f)
StarOpen ==
    /\ pc = "s_open"
    /\ \E exists \in BOOLEAN :
        IF exists
        THEN pc' = "s_loop" /\ open' = open \cup {StarFile} /\ UNCHANGED error
        ELSE Raise("IOError", StarFile)
    /\ UNCHANGED <<entry, consumed, bIn, dIn, sIn, boundaries, boundary_data,
                   decision_data, magnitude_groups, star_data, returned, html>>

\* one iteration of the loop of group_stars_by_magnitude, which pulls one
\* record out of parse_hipparcos
StarLine ==
    /\ pc = "s_loop"
    /\ Len(sIn) < MaxStarLines
    /\ \E line \in StarLines :
        /\ sIn' = Append(sIn, line)
        /\ IF StarFile \notin open \/ ~line.numeric
           THEN Raise("ValueError", StarFile) /\ UNCHANGED magnitude_groups
           ELSE /\ magnitude_groups' =
                    AppendTo(magnitude_groups, Key(Record(line)), Radec(Record(line)))
                /\ UNCHANGED <<pc, error, open>>
    /\ UNCHANGED <<entry, consumed, bIn, dIn, boundaries, boundary_data,
                   decision_data, star_data, returned, html>>

\* end of file: group_stars_by_magnitude returns inside the with block, the
\* block is left and the sorted list is returned
StarReturn ==
    /\ pc = "s_loop"
    /\ StarFile \in open
    /\ consumed' = consumed \cup {StarFile}
    /\ open' = ExitWith(open, StarFile)
    /\ star_data' = StarData(magnitude_groups)
    /\ returned' = returned \cup {"build_star_data"}
    /\ pc' = AfterStage(pc)
    /\ UNCHANGED <<entry, error, bIn, dIn, sIn, boundaries, boundary_data,
                   decision_data, magnitude_groups, html>>

\* html = html_template % {...}; return HTML(html)
Substitute ==
    /\ pc = "substitute"
    /\ html' = [boundary_data |-> boundary_data, decision_data |-> decision_data,
                star_data |-> star_data]
    /\ returned' = returned \cup {"starfield"}
    /\ pc' = "done"
    /\ UNCHANGED <<entry, error, open, consumed, bIn, dIn, sIn, boundaries,
                   boundary_data, decision_data, magnitude_groups, star_data>>

Next ==
    \/ ReadJs
    \/ ReadTemplate
    \/ BoundaryOpen
    \/ BoundaryLine
    \/ BoundaryReturn
    \/ DecisionOpen
    \/ DecisionLine
    \/ DecisionReturn
    \/ StarOpen
    \/ StarLine
    \/ StarReturn
    \/ Substitute

Spec == Init /\ [][Next]_vars

(***************************************************************************)
(* Properties                                                              *)
(***************************************************************************)

Last(s) == s[Len(s)]

\* the boundary line just read was accepted and its vertex appended
BoundaryLineStored == pc = "b_loop" /\ bIn # <<>>

\* the vertex appended for the boundary line just read
LastVertex == Last(boundaries[Last(bIn).con])

DecD == ParseInt(Last(bIn).dec[1])
DecM == ParseInt(Last(bIn).dec[2])
DecS == ParseInt(Last(bIn).dec[3])

\* C1: for a boundary line whose Dec field is D:M:0 with D a non-zero integer
\* and M >= 0, the stored declination is 60*D + M when D > 0 and 60*D - M
\* when D < 0.
C1_DecSignCopy ==
    (BoundaryLineStored /\ DecS = 0 /\ DecD # 0 /\ DecM >= 0) =>
        LastVertex[2] = (IF DecD > 0 THEN 60 * DecD + DecM ELSE 60 * DecD - DecM)

\* -5:30:0 has been read and stored as -330
C1_Witness ==
    /\ BoundaryLineStored
    /\ Last(bIn).dec = <<T(-5), T(30), T(0)>>
    /\ LastVertex[2] = -330

\* C2: when the Dec degrees text is "-0", the minutes still become negative:
\* the stored declination is -M.
C2_NegativeZeroDegrees ==
    (BoundaryLineStored /\ Last(bIn).dec[1] = NegZero /\ DecS = 0 /\ DecM >= 0) =>
        LastVertex[2] = 0 - DecM

\* the colour index of a catalogue line, in hundredths
Bv(line) == ParseFloat(line.bv)

RECURSIVE CountLines(_, _)
\* the number of lines of a sequence whose colour index lies in lo..hi
CountLines(lines, range) ==
    IF lines = <<>> THEN 0
    ELSE (IF Bv(Head(lines)) \in range THEN 1 ELSE 0) + CountLines(Tail(lines), range)

RECURSIVE CountPairs(_, _)
\* the number of coordinate pairs held by the groups with the keys of a set
CountPairs(groups, keys) ==
    IF keys = {} THEN 0
    ELSE LET k == CHOOSE x \in keys : TRUE
         IN  Len(groups[k]) + CountPairs(groups, keys \ {k})

KeysOfColor(c) == {k \in DOMAIN magnitude_groups : k[2] = c}

\* C3: every colour index is classified into exactly one of blue (bv < 0.00),
\* white (0.00 <= bv < 0.59) and red (bv >= 0.59); 0.00 is white, 0.59 is red.
C3_ColorPartition ==
    pc = "s_loop" =>
        /\ \A k \in DOMAIN magnitude_groups : k[2] \in {blue, white, red}
        /\ CountPairs(magnitude_groups, KeysOfColor(blue)) = CountLines(sIn, -1000..-1)
        /\ CountPairs(magnitude_groups, KeysOfColor(white)) = CountLines(sIn, 0..58)
        /\ CountPairs(magnitude_groups, KeysOfColor(red)) = CountLines(sIn, 59..1000)
        /\ CountPairs(magnitude_groups, DOMAIN magnitude_groups) = Len(sIn)

\* a record with colour index 0.00 and one with 0.59 have been grouped
C3_Witness ==
    /\ pc = "s_loop"
    /\ \E i, j \in 1..Len(sIn) : Bv(sIn[i]) = 0 /\ Bv(sIn[j]) = 59
    /\ KeysOfColor(white) # {}
    /\ KeysOfColor(red) # {}

RECURSIVE CountVertices(_, _)
CountVertices(m, keys) ==
    IF keys = {} THEN 0
    ELSE LET k == CHOOSE x \in keys : TRUE
         IN  Len(m[k]) + CountVertices(m, keys \ {k})

\* C4: build_boundary_data fails, returns no mapping and stores no vertex as
\* soon as it reads a line whose Dec seconds field is not 0.
C4_SecondsNotZeroFails ==
    \A i \in 1..Len(bIn) :
        ParseInt(bIn[i].dec[3]) # 0 =>
            /\ i = Len(bIn)
            /\ pc = "failed"
            /\ error # "none"
            /\ "build_boundary_data" \notin returned
            /\ boundary_data = <<>>
            /\ CountVertices(boundaries, DOMAIN boundaries) = Len(bIn) - 1

\* 10:20:05 has been read and the run has failed on the assertion
C4_Witness ==
    /\ bIn # <<>>
    /\ Last(bIn).dec = <<T(10), T(20), T(5)>>
    /\ error = "AssertionError"
    /\ pc = "failed"

RaH == ParseInt(Last(bIn).ra[1])
RaM == ParseInt(Last(bIn).ra[2])
RaS == ParseInt(Last(bIn).ra[3])

\* every right ascension held by the accumulator and by the returned mapping
StoredRas ==
    UNION { {boundaries[c][i][1] : i \in 1..Len(boundaries[c])} : c \in DOMAIN boundaries }
    \cup UNION { {boundary_data[k].coordinates[1][i][1] :
                    i \in 1..Len(boundary_data[k].coordinates[1])} :
                 k \in 1..Len(boundary_data) }

RaFieldsNonNegative ==
    \A i \in 1..Len(bIn) : \A j \in 1..3 : ParseInt(bIn[i].ra[j]) >= 0

\* C5 as stated: the stored right ascension of a line with RA field H:M:S is
\* (60*H + M)*60 + S, and every stored right ascension is non-negative.
C5_RaAlwaysNonNegative ==
    /\ BoundaryLineStored => LastVertex[1] = (60 * RaH + RaM) * 60 + RaS
    /\ \A r \in StoredRas : r >= 0

\* C5 as amended: the stored right ascension of a line with RA field H:M:S is
\* (60*H + M)*60 + S, and every stored right ascension is a non-negative
\* integer when no RA field read so far is negative.
C5_RaArcseconds ==
    /\ BoundaryLineStored => LastVertex[1] = (60 * RaH + RaM) * 60 + RaS
    /\ RaFieldsNonNegative => \A r \in StoredRas : r \in Nat

\* 01:02:03 has been read and stored as 3723, after 00:00:00 stored as 0
C5_Witness ==
    /\ BoundaryLineStored
    /\ Last(bIn).ra = <<T(1), T(2), T(3)>>
    /\ LastVertex[1] = 3723
    /\ 0 \in StoredRas

RECURSIVE VerticesOf(_, _)
\* the vertices of the lines of a sequence that carry a code, in line order
VerticesOf(lines, con) ==
    IF lines = <<>> THEN <<>>
    ELSE (IF Head(lines).con = con THEN <<Vertex(Head(lines))>> ELSE <<>>)
         \o VerticesOf(Tail(lines), con)

\* C6: the returned mapping has its keys in strictly ascending order, one key
\* per distinct code of the input, and each polygon has exactly one ring, the
\* vertices of its code in input order.
C6_SortedKeysOneRing ==
    "build_boundary_data" \in returned =>
        /\ \A k \in 1..(Len(boundary_data) - 1) :
              StrLess(boundary_data[k].key, boundary_data[k + 1].key)
        /\ {boundary_data[k].key : k \in 1..Len(boundary_data)}
              = {bIn[i].con : i \in 1..Len(bIn)}
        /\ Len(boundary_data) = Cardinality({bIn[i].con : i \in 1..Len(bIn)})
        /\ \A k \in 1..Len(boundary_data) :
              /\ Len(boundary_data[k].coordinates) = 1
              /\ boundary_data[k].coordinates[1] = VerticesOf(bIn, boundary_data[k].key)

\* the magnitude bucket of a magnitude in hundredths: its integer part
Bucket(x) ==
    CHOOSE n \in -10..10 :
        \/ x >= 0 /\ n >= 0 /\ 100 * n <= x /\ x < 100 * (n + 1)
        \/ x < 0 /\ n <= 0 /\ 100 * (n - 1) < x /\ x <= 100 * n

ColorName(bv) == CASE bv < 0 -> blue [] bv >= 0 /\ bv < 59 -> white [] bv >= 59 -> red

GroupKey(line) == << Bucket(ParseFloat(line.magnitude)), ColorName(Bv(line)) >>

RECURSIVE PairsOf(_, _)
\* the [-ra, dec] pairs of the lines of a sequence that fall in a group
PairsOf(lines, key) ==
    IF lines = <<>> THEN <<>>
    ELSE (IF GroupKey(Head(lines)) = key
          THEN << <<0 - ParseFloat(Head(lines).ra), ParseFloat(Head(lines).dec)>> >>
          ELSE <<>>)
         \o PairsOf(Tail(lines), key)

\* C7: every record is in exactly one group, keyed by (magnitude truncated
\* toward zero, colour), as the pair [-ra, dec], in input order within the
\* group; build_star_data emits the groups in ascending (bucket, colour) order.
C7_GroupsAndOrder ==
    /\ pc = "s_loop" =>
          /\ DOMAIN magnitude_groups = {GroupKey(sIn[i]) : i \in 1..Len(sIn)}
          /\ \A key \in DOMAIN magnitude_groups :
                magnitude_groups[key] = PairsOf(sIn, key)
    /\ "build_star_data" \in returned =>
          /\ Len(star_data) = Cardinality({GroupKey(sIn[i]) : i \in 1..Len(sIn)})
          /\ \A k \in 1..Len(star_data) :
                star_data[k].coordinates
                    = PairsOf(sIn, <<star_data[k].magnitude, star_data[k].color>>)
          /\ \A k \in 1..(Len(star_data) - 1) :
                \/ star_data[k].magnitude < star_data[k + 1].magnitude
                \/ /\ star_data[k].magnitude = star_data[k + 1].magnitude
                   /\ StrLess(star_data[k].color, star_data[k + 1].color)

\* the catalogue (3.2, 10.0, 20.0, -0.1) has given the one group (3, blue)
\* holding [-10.0, 20.0]
C7_Witness ==
    /\ "build_star_data" \in returned
    /\ sIn = <<SLine0>>
    /\ Len(star_data) = 1
    /\ star_data[1].magnitude = 3
    /\ star_data[1].color = blue
    /\ star_data[1].coordinates = << <<-1000, 2000>> >>

\* groups of several buckets and colours, one of them holding two records
\* that were not adjacent in the input, have been emitted
C7_WitnessOrder ==
    /\ "build_star_data" \in returned
    /\ Len(sIn) = 3
    /\ Len(star_data) = 2
    /\ GroupKey(sIn[1]) = GroupKey(sIn[3])
    /\ sIn[1] # sIn[3]
    /\ ParseFloat(sIn[1].magnitude) < 0

\* the upper-case form of the codes of the decision table
UpperCode(c) == CASE c = cep -> CEP [] c = CEP -> CEP [] c = And -> AND

\* C8: for valid 4-field decision lines, load_decision_data yields exactly one
\* record per line, in input order, each (ra_start*15, ra_end*15, dec, code
\* uppercased).
C8_DecisionRecords ==
    (\A i \in 1..Len(dIn) : dIn[i].ntokens = 4) =>
        /\ Len(decision_data) = Len(dIn)
        /\ \A i \in 1..Len(dIn) :
              decision_data[i] = << 15 * ParseFloat(dIn[i].ra0), 15 * ParseFloat(dIn[i].ra1),
                                    ParseFloat(dIn[i].dec), UpperCode(dIn[i].con) >>

\* "1.0 2.0 10.0 cep" was the second of three lines and is the second record
C8_Witness ==
    /\ "load_decision_data" \in returned
    /\ Len(dIn) = 3
    /\ dIn[2] = DLine0
    /\ dIn[1] # DLine0
    /\ decision_data[2] = <<1500, 3000, 1000, CEP>>

BadBoundaryLine(l) == l.nfields # 5 \/ ParseInt(l.dec[3]) # 0
BadDecisionLine(l) == l.ntokens # 4
BadStarLine(l) == ~l.numeric

\* C9: every error of any stage aborts the run: the offending line is not
\* skipped, no later stage runs and no document is returned.
C9_ErrorsAbort ==
    /\ error # "none" =>
          /\ pc = "failed"
          /\ entry \notin returned
          /\ html = NoDocument
          /\ open = {}
    /\ (\E i \in 1..Len(bIn) : BadBoundaryLine(bIn[i])) =>
          /\ error # "none"
          /\ BadBoundaryLine(Last(bIn))
          /\ "build_boundary_data" \notin returned
          /\ dIn = <<>> /\ sIn = <<>>
          /\ consumed = {}
    /\ (\E i \in 1..Len(dIn) : BadDecisionLine(dIn[i])) =>
          /\ error # "none"
          /\ BadDecisionLine(Last(dIn))
          /\ "load_decision_data" \notin returned
          /\ sIn = <<>>
          /\ DecisionFile \notin consumed /\ StarFile \notin consumed
    /\ (\E i \in 1..Len(sIn) : BadStarLine(sIn[i])) =>
          /\ error # "none"
          /\ BadStarLine(Last(sIn))
          /\ "build_star_data" \notin returned
          /\ StarFile \notin consumed

\* starfield has failed on a decision line after the boundary stage returned
C9_Witness ==
    /\ entry = "starfield"
    /\ pc = "failed"
    /\ error = "ValueError"
    /\ "build_boundary_data" \in returned
    /\ dIn # <<>>
    /\ BadDecisionLine(Last(dIn))
    /\ sIn = <<>>

Sources == {BoundaryFile, DecisionFile, StarFile}

\* C10: each source is opened, fully consumed and closed before the next
\* stage begins; no two sources are open at once; a source is closed on
\* normal completion and on a parse failure; records are consumed while
\* their file is open.
C10_ScopedFiles ==
    /\ Cardinality(open) <= 1
    /\ pc \notin {"b_loop", "d_loop", "s_loop"} => open = {}
    /\ pc = "b_loop" => open = {BoundaryFile}
    /\ pc = "d_loop" => open = {DecisionFile}
    /\ pc = "s_loop" => open = {StarFile}
    /\ entry = "starfield" =>
          /\ (DecisionFile \in open \/ dIn # <<>> \/ pc = "s_open") =>
                BoundaryFile \in consumed
          /\ (StarFile \in open \/ sIn # <<>> \/ pc = "substitute") =>
                DecisionFile \in consumed
          /\ "starfield" \in returned => consumed = Sources
    /\ "load_decision_data" \in returned =>
          DecisionFile \in consumed /\ Len(decision_data) = Len(dIn)
    /\ "build_star_data" \in returned =>
          /\ StarFile \in consumed
          /\ CountPairs(magnitude_groups, DOMAIN magnitude_groups) = Len(sIn)

\* starfield has failed on a star line, with both earlier sources consumed
\* and nothing left open
C10_Witness ==
    /\ entry = "starfield"
    /\ pc = "failed"
    /\ error = "ValueError"
    /\ sIn # <<>>
    /\ consumed = {BoundaryFile, DecisionFile}
    /\ open = {}

====
